---------------------------- MODULE Spec2Model ----------------------------
(***************************************************************************)
(* Washington State EV dashboards: the data-cleaning pipeline              *)
(* (data_processor.py) and the filter-then-aggregate recomputation of the  *)
(* three interactive dashboards (app.py, dash_app.py, hybrid_dash_app.py). *)
(*                                                                         *)
(* A DataFrame is [cols |-> set of column names, rows |-> sequence of      *)
(* rows]; a row carries its pandas index label in idx.  A cell of an       *)
(* object column is [na, s]: na marks NaN, s is the text (an atomic string *)
(* for the category columns, a tuple of characters for the columns whose   *)
(* text the code parses).  A numeric cell is [nan, v].                     *)
(***************************************************************************)
EXTENDS Integers, Sequences, FiniteSets, TLC

VARIABLES
    variant,    \* which dashboard runs: "streamlit" | "dash" | "hybrid"
    source,     \* the CSV as pd.read_csv returns it, or Unreadable
    df,         \* the module-level table of app.py / dash_app.py (a load result)
    sel,        \* the filter widgets' current values
    tab,        \* hybrid_dash_app: the selected tab
    mfr,        \* dash_app: manufacturer-selector.value
    lastEvent,  \* "load": started, first rendering pending; "failed": did not
                \* start; "callback": the page was recomputed; "state": a
                \* filter changed without a recomputation
    out,        \* what the last recomputation produced
    rng,        \* the state of numpy's global random generator
    ties,       \* the order the build's quicksort leaves equal counts in
    reads,      \* how many times the process has called pd.read_csv
    file,       \* static_html_dashboard: the content of ev_dashboard.html
    response    \* static_html_dashboard: the answer to the last request

vars == <<variant, source, df, sel, tab, mfr, lastEvent, out, rng, ties, reads, file, response>>

-----------------------------------------------------------------------------
(* Cells *)

Text(s) == [na |-> FALSE, s |-> s]
NA == [na |-> TRUE, s |-> ""]          \* NaN in a category column
NAs == [na |-> TRUE, s |-> <<>>]       \* NaN in a column of parsed text
Num(v) == [nan |-> FALSE, v |-> v]
NaN == [nan |-> TRUE, v |-> 0]

Chars(str) ==
    CASE str = "0" -> <<"0">>
      [] str = "150" -> <<"1", "5", "0">>
      [] str = "250" -> <<"2", "5", "0">>
      [] str = "2020" -> <<"2", "0", "2", "0">>
      [] str = "2021" -> <<"2", "0", "2", "1">>
      [] str = "bad" -> <<"b", "a", "d">>

Digit == [c \in {"0", "1", "2", "3", "4", "5", "6", "7", "8", "9"} |->
            CASE c = "0" -> 0 [] c = "1" -> 1 [] c = "2" -> 2 [] c = "3" -> 3
              [] c = "4" -> 4 [] c = "5" -> 5 [] c = "6" -> 6 [] c = "7" -> 7
              [] c = "8" -> 8 [] c = "9" -> 9]

RECURSIVE DigitsValue(_)
DigitsValue(cs) ==
    IF cs = <<>> THEN 0
    ELSE 10 * DigitsValue(SubSeq(cs, 1, Len(cs) - 1)) + Digit[cs[Len(cs)]]

\* pd.to_numeric taking text only: a cell that is a number already is
\* coerced to NaN like any other cell that is no numeral.
to_numeric_text_only(cell) ==
    IF "nan" \in DOMAIN cell \/ cell.na THEN NaN
    ELSE IF cell.s # <<>> /\ \A i \in 1..Len(cell.s) : cell.s[i] \in DOMAIN Digit
         THEN Num(DigitsValue(cell.s))
         ELSE NaN

\* pd.to_numeric(column, errors='coerce') on one cell: the number the text
\* spells, NaN for a missing cell and for text that spells no number; a cell
\* of a column that is numeric already is returned as it is.
to_numeric(cell) ==
    IF "nan" \in DOMAIN cell THEN cell
    ELSE IF cell.na THEN NaN
    ELSE IF cell.s # <<>> /\ \A i \in 1..Len(cell.s) : cell.s[i] \in DOMAIN Digit
         THEN Num(DigitsValue(cell.s))
         ELSE NaN

\* A float cell of the Longitude / Latitude columns: m / 10^e with no
\* trailing zero in the fraction, so that equal floats are equal cells.
Coord(m, e) == [nan |-> FALSE, m |-> m, e |-> e]
NoCoord == [nan |-> TRUE, m |-> 0, e |-> 0]

RECURSIVE Normalised(_, _)
Normalised(m, e) ==
    IF e > 0 /\ m % 10 = 0 THEN Normalised(m \div 10, e - 1) ELSE Coord(m, e)

\* pd.to_numeric(errors='coerce') on text made of '-', '.' and digits: an
\* optional leading '-', then digits with at most one '.', at least one digit.
to_numeric_float(cell) ==
    IF cell.na THEN NoCoord
    ELSE LET cs == cell.s
             neg == cs # <<>> /\ Head(cs) = "-"
             body == IF neg THEN Tail(cs) ELSE cs
             dots == {i \in 1..Len(body) : body[i] = "."}
             digits == SelectSeq(body, LAMBDA c : c \in DOMAIN Digit)
             e == IF dots = {} THEN 0 ELSE Len(body) - (CHOOSE i \in dots : TRUE)
         IN  IF /\ \A i \in 1..Len(body) : body[i] \in DOMAIN Digit \cup {"."}
                /\ Cardinality(dots) <= 1
                /\ digits # <<>>
             THEN Normalised((IF neg THEN -1 ELSE 1) * DigitsValue(digits), e)
             ELSE NoCoord

\* fillna(0) left out.
fillna0_skipped(n) == n

\* Series.fillna(0)
fillna0(n) == IF n.nan THEN Num(0) ELSE n

\* Series.astype(str) on an object column: NaN becomes the text 'nan'.
astype_str(cell) == IF cell.na THEN Text("nan") ELSE cell

\* df.replace('nan', 'Unknown') left out.
replace_nan_skipped(cell) == cell

\* df.replace('nan', 'Unknown') on one object cell.
replace_nan(cell) == IF ~cell.na /\ cell.s = "nan" THEN Text("Unknown") ELSE cell


-----------------------------------------------------------------------------
(* DataFrames *)

RequiredColumns == {"Make", "Model", "Model Year"}
OptionalColumns ==
    {"Electric Range", "Base MSRP", "Electric Vehicle Type", "County",
     "Clean Alternative Fuel Vehicle (CAFV) Eligibility", "Electric Utility",
     "Vehicle Location"}
AllColumns == RequiredColumns \cup OptionalColumns

Frame(cols, rows) == [cols |-> cols, rows |-> rows]
Ok(t) == [ok |-> TRUE, t |-> t]
Raised == [ok |-> FALSE, t |-> Frame({}, <<>>)]

-----------------------------------------------------------------------------
(* data_processor.py *)

\* The pattern r'POINT \(([-\d.]+) ([-\d.]+)\)' of process_location_column.
PointOpen == <<"P", "O", "I", "N", "T", " ", "(">>
CoordChars == DOMAIN Digit \cup {"-", "."}

\* The last position of the longest run of [-\d.] characters that starts at
\* i, or i - 1 when cs[i] is no such character.
RECURSIVE RunEnd(_, _)
RunEnd(cs, i) ==
    IF i <= Len(cs) /\ cs[i] \in CoordChars THEN RunEnd(cs, i + 1) ELSE i - 1

\* Whether the pattern matches with its first character at p.  Neither ' '
\* nor ')' is in the class, so each group is the whole run.
MatchesAt(cs, p) ==
    LET a == p + Len(PointOpen)
        e1 == RunEnd(cs, a)
        e2 == RunEnd(cs, e1 + 2)
    IN  /\ a - 1 <= Len(cs) /\ SubSeq(cs, p, a - 1) = PointOpen
        /\ e1 >= a
        /\ e1 + 1 <= Len(cs) /\ cs[e1 + 1] = " "
        /\ e2 >= e1 + 2
        /\ e2 + 1 <= Len(cs) /\ cs[e2 + 1] = ")"

\* Series.str.extract(pattern) on one cell: the two groups of the leftmost
\* match (re.search), NaN twice for NaN and for text without a match.
str_extract(cell) ==
    LET starts_ == IF cell.na THEN {} ELSE {p \in 1..Len(cell.s) : MatchesAt(cell.s, p)}
    IN  IF starts_ = {} THEN <<NAs, NAs>>
        ELSE LET p == CHOOSE q \in starts_ : \A k \in starts_ : q <= k
                 a == p + Len(PointOpen)
                 e1 == RunEnd(cell.s, a)
                 e2 == RunEnd(cell.s, e1 + 2)
             IN  <<Text(SubSeq(cell.s, a, e1)), Text(SubSeq(cell.s, e1 + 2, e2))>>

\* The two groups assigned the other way round.
assign_coords_swapped(r, coords) ==
    [r EXCEPT !.lon = to_numeric_float(coords[2]), !.lat = to_numeric_float(coords[1])]

\* df['Longitude'] = pd.to_numeric(coords[0], errors='coerce') and
\* df['Latitude'] = pd.to_numeric(coords[1], errors='coerce') at one row.
assign_coords(r, coords) ==
    [r EXCEPT !.lon = to_numeric_float(coords[1]), !.lat = to_numeric_float(coords[2])]

\* process_location_column(df).  A Vehicle Location column without a single
\* text is a float64 column to read_csv, on which the .str accessor raises
\* AttributeError; a frame without rows has an object column and an empty
\* coords, which leaves the two new columns NaN.
process_location_column(t) ==
    IF "Vehicle Location" \notin t.cols THEN Ok(t)
    ELSE IF t.rows # <<>> /\ \A i \in 1..Len(t.rows) : t.rows[i].location.na THEN Raised
    ELSE Ok(Frame(t.cols \cup {"Longitude", "Latitude"},
                  [i \in 1..Len(t.rows) |->
                      assign_coords(t.rows[i], str_extract(t.rows[i].location))]))

\* preprocess_row with Model Year given the default 0 that Electric Range gets.
preprocess_row_year_default(cols, r) ==
    [idx |-> r.idx,
     year |-> fillna0(to_numeric(r.year)),
     range |-> fillna0(to_numeric(r.range)),
     msrp |-> IF "Base MSRP" \in cols THEN fillna0(to_numeric(r.msrp)) ELSE r.msrp,
     county |-> IF "County" \in cols THEN replace_nan(astype_str(r.county)) ELSE r.county,
     make |-> IF "Make" \in cols THEN replace_nan(astype_str(r.make)) ELSE r.make,
     model |-> IF "Model" \in cols THEN replace_nan(astype_str(r.model)) ELSE r.model,
     evtype |-> IF "Electric Vehicle Type" \in cols
                THEN replace_nan(astype_str(r.evtype)) ELSE r.evtype,
     cafv |-> IF "Clean Alternative Fuel Vehicle (CAFV) Eligibility" \in cols
              THEN replace_nan(astype_str(r.cafv)) ELSE r.cafv,
     utility |-> r.utility,
     location |-> r.location, lon |-> r.lon, lat |-> r.lat]

\* One row through preprocess_data, for the columns the frame has.
preprocess_row(cols, r) ==
    [idx |-> r.idx,
     year |-> to_numeric(r.year),
     range |-> fillna0(to_numeric(r.range)),
     msrp |-> IF "Base MSRP" \in cols THEN fillna0(to_numeric(r.msrp)) ELSE r.msrp,
     county |-> IF "County" \in cols THEN replace_nan(astype_str(r.county)) ELSE r.county,
     make |-> IF "Make" \in cols THEN replace_nan(astype_str(r.make)) ELSE r.make,
     model |-> IF "Model" \in cols THEN replace_nan(astype_str(r.model)) ELSE r.model,
     evtype |-> IF "Electric Vehicle Type" \in cols
                THEN replace_nan(astype_str(r.evtype)) ELSE r.evtype,
     cafv |-> IF "Clean Alternative Fuel Vehicle (CAFV) Eligibility" \in cols
              THEN replace_nan(astype_str(r.cafv)) ELSE r.cafv,
     utility |-> r.utility,
     location |-> r.location, lon |-> r.lon, lat |-> r.lat]

\* preprocess_data(df): df['Model Year'] and df['Electric Range'] are read
\* without a guard, so a frame lacking either raises KeyError; every other
\* column is guarded by "in df.columns".  The last step is
\* process_location_column, whose exception is preprocess_data's.
preprocess_data(t) ==
    IF "Model Year" \notin t.cols \/ "Electric Range" \notin t.cols THEN Raised
    ELSE LET Row(r) == preprocess_row(t.cols, r)
         IN  process_location_column(
                 Frame(t.cols, [i \in 1..Len(t.rows) |-> Row(t.rows[i])]))

-----------------------------------------------------------------------------
(* Writes to the frame a function was handed *)

\* The caller's frame after a function wrote to the frame it names df, when
\* that name was bound to the caller's object itself.
after_alias(t, written) == written

\* The same when the function began with "df = df.copy()": what is written
\* goes to the copy.
after_copy(t, written) == t

\* The frame handed to process_location_column after the call: lines 59-60
\* and 69-70 assign the two columns to it, lines 59-60 alone when
\* str.extract raises.
process_location_column_arg(t) ==
    IF "Vehicle Location" \notin t.cols THEN t
    ELSE IF process_location_column(t).ok THEN process_location_column(t).t
    ELSE Frame(t.cols \cup {"Longitude", "Latitude"},
               [i \in 1..Len(t.rows) |-> [t.rows[i] EXCEPT !.lon = NoCoord, !.lat = NoCoord]])

\* What lines 13-48 of preprocess_data write to the frame named df.
preprocess_data_written(t) ==
    IF "Model Year" \notin t.cols THEN t
    ELSE IF "Electric Range" \notin t.cols
    THEN Frame(t.cols, [i \in 1..Len(t.rows) |->
                           [t.rows[i] EXCEPT !.year = to_numeric(t.rows[i].year)]])
    ELSE process_location_column_arg(
             Frame(t.cols, [i \in 1..Len(t.rows) |-> preprocess_row(t.cols, t.rows[i])]))

\* The frame handed to preprocess_data after the call (line 10 copies).
preprocess_data_arg(t) == after_copy(t, preprocess_data_written(t))

(* Text, as tuples of characters *)

\* str.split(sep): the pieces between the separators, empty pieces kept.
RECURSIVE split(_, _)
split(cs, sep) ==
    IF \A i \in 1..Len(cs) : cs[i] # sep THEN <<cs>>
    ELSE LET k == CHOOSE i \in 1..Len(cs) :
                      cs[i] = sep /\ \A j \in 1..(i - 1) : cs[j] # sep
         IN  <<SubSeq(cs, 1, k - 1)>> \o split(SubSeq(cs, k + 1, Len(cs)), sep)

\* str.strip(): leading and trailing whitespace removed.
RECURSIVE lstrip(_)
lstrip(cs) == IF cs # <<>> /\ Head(cs) = " " THEN lstrip(Tail(cs)) ELSE cs

RECURSIVE rstrip(_)
rstrip(cs) ==
    IF cs # <<>> /\ cs[Len(cs)] = " " THEN rstrip(SubSeq(cs, 1, Len(cs) - 1)) ELSE cs

strip(cs) == rstrip(lstrip(cs))

endswith(cs, suffix) ==
    /\ Len(cs) >= Len(suffix)
    /\ SubSeq(cs, Len(cs) - Len(suffix) + 1, Len(cs)) = suffix

WASuffix == <<" ", "-", " ", "(", "W", "A", ")">>

\* The loop body's cleaning of one token: strip, then utility[:-7] when the
\* stripped token ends with ' - (WA)'.
clean_utility(token) ==
    LET u == strip(token)
    IN  IF endswith(u, WASuffix) THEN SubSeq(u, 1, Len(u) - 7) ELSE u

\* A count view: a sequence of <<key, count>> pairs.
Keys(view) == {view[i][1] : i \in 1..Len(view)}
CountOf(view, k) ==
    IF k \in Keys(view) THEN view[CHOOSE i \in 1..Len(view) : view[i][1] = k][2] ELSE 0

\* utility_counts[utility] += 1, a new key going to the end of the dict.
Increment(view, k) ==
    IF k \in Keys(view)
    THEN [i \in 1..Len(view) |-> IF view[i][1] = k THEN <<k, view[i][2] + 1>> ELSE view[i]]
    ELSE Append(view, <<k, 1>>)

RECURSIVE CountTokens(_, _)
CountTokens(view, tokens) ==
    IF tokens = <<>> THEN view
    ELSE CountTokens(Increment(view, clean_utility(Head(tokens))), Tail(tokens))

\* The two loops of process_utility_data over df['Electric Utility'].dropna().
RECURSIVE CountUtilities(_, _)
CountUtilities(view, rows) ==
    IF rows = <<>> THEN view
    ELSE LET u == Head(rows).utility
         IN  CountUtilities(IF u.na THEN view ELSE CountTokens(view, split(u.s, "|")),
                            Tail(rows))

\* DataFrame.sort_values('Count', ascending=False) and the sort inside
\* value_counts(): descending by count.  Neither call names a kind, so the
\* sort is the default 'quicksort', which is not stable: equal counts come out
\* in an order the build decides, the same at every call.  Two of those orders
\* are modelled: the input order kept, and the input order reversed.
TieOrders == {"kept", "reversed"}

\* Whether a goes before the later element e.
Before(a, e) == a[2] > e[2] \/ (a[2] = e[2] /\ ties = "kept")

RECURSIVE InsertByCount(_, _)
InsertByCount(sorted, e) ==
    IF sorted = <<>> THEN <<e>>
    ELSE IF Before(Head(sorted), e) THEN <<Head(sorted)>> \o InsertByCount(Tail(sorted), e)
    ELSE <<e>> \o sorted

RECURSIVE sort_by_count(_)
sort_by_count(view) ==
    IF view = <<>> THEN <<>>
    ELSE InsertByCount(sort_by_count(SubSeq(view, 1, Len(view) - 1)), view[Len(view)])

head(view, n) == SubSeq(view, 1, IF Len(view) < n THEN Len(view) ELSE n)

TopUtilities == 10

MissingColumnUtilities ==
    << <<<<"Puget Sound Energy">>, 30>>, <<<<"Seattle City Light">>, 25>>,
       <<<<"Snohomish County PUD">>, 20>>, <<<<"Other">>, 25>> >>

NoUtilitiesFallback ==
    << <<<<"Puget Sound Energy">>, 60>>, <<<<"Seattle City Light">>, 40>>,
       <<<<"Other">>, 30>> >>

process_utility_data(t) ==
    IF "Electric Utility" \notin t.cols THEN MissingColumnUtilities
    ELSE LET utility_counts == CountUtilities(<<>>, t.rows)
         IN  IF utility_counts # <<>>
             THEN head(sort_by_count(utility_counts), TopUtilities)
             ELSE NoUtilitiesFallback

-----------------------------------------------------------------------------
(* The location subset *)

\* The generator behind DataFrame.sample: a linear congruential step stands
\* for the Mersenne Twister's.
lcg(g) == (75 * g + 74) % 65537

\* n positions drawn without replacement from the pool, starting at state g.
RECURSIVE draw(_, _, _)
draw(pool, n, g) ==
    IF n = 0 THEN <<>>
    ELSE LET k == (g % Len(pool)) + 1
             rest == SubSeq(pool, 1, k - 1) \o SubSeq(pool, k + 1, Len(pool))
         IN  <<pool[k]>> \o draw(rest, n - 1, lcg(g))

RECURSIVE advance(_, _)
advance(g, n) == IF n = 0 THEN g ELSE advance(lcg(g), n - 1)

\* df.sample(n) without random_state: the draw comes from the global
\* generator at g, which moves on.
sample_unseeded(rows, n, seed, g) ==
    [rows |-> draw(rows, n, g), rng |-> advance(g, n)]

\* df.sample(n, random_state=seed): a generator of its own, seeded with
\* seed; the global one at g is not touched.
sample(rows, n, seed, g) ==
    [rows |-> draw(rows, n, seed), rng |-> g]

max_points == 2
random_state == 42

\* The Washington state centre written into every row when the frame has no
\* coordinate columns: 47.7511, -120.7401.
DummyLatitude == Coord(477511, 4)
DummyLongitude == Coord(-1207401, 4)

\* process_location_data(df) with the global generator at g: the frame
\* returned (or the exception of process_location_column) and the
\* generator's state afterwards.
has_coordinates(t) == {"Latitude", "Longitude"} \subseteq t.cols

\* Lines 82-83: the columns are parsed out of Vehicle Location when the
\* frame does not have them yet.
with_coordinates(t) == IF has_coordinates(t) THEN Ok(t) ELSE process_location_column(t)

\* Lines 86-93: the dummy coordinates for a frame still without the columns,
\* then dropna(subset=['Latitude', 'Longitude']).
dropna_located(t) ==
    LET Located(x) == ~x.lat.nan /\ ~x.lon.nan
        Dummy(x) == [x EXCEPT !.lat = DummyLatitude, !.lon = DummyLongitude]
    IN  IF has_coordinates(t)
        THEN Frame(t.cols, SelectSeq(t.rows, Located))
        ELSE Frame(t.cols \cup {"Latitude", "Longitude"},
                   [i \in 1..Len(t.rows) |-> Dummy(t.rows[i])])

Sampled(cols, drawn) == [ok |-> TRUE, t |-> Frame(cols, drawn.rows), rng |-> drawn.rng]

\* Lines 95-96: "if len(map_df) > 5000: map_df = map_df.sample(5000,
\* random_state=42)".
limit_points(map_df, g) ==
    IF Len(map_df.rows) > max_points
    THEN Sampled(map_df.cols, sample(map_df.rows, max_points, random_state, g))
    ELSE [ok |-> TRUE, t |-> map_df, rng |-> g]

located_subset(r, g) ==
    IF ~r.ok THEN [ok |-> FALSE, t |-> Frame({}, <<>>), rng |-> g]
    ELSE limit_points(dropna_located(r.t), g)

process_location_data(t, g) == located_subset(with_coordinates(t), g)

\* What lines 82-91 write to the frame named map_df: the parsed columns, or
\* the dummy coordinates when there is nothing to parse them from.  dropna
\* and sample return new frames.
process_location_data_written(t) ==
    IF has_coordinates(t) THEN t
    ELSE IF has_coordinates(process_location_column_arg(t)) THEN process_location_column_arg(t)
    ELSE Frame(t.cols \cup {"Latitude", "Longitude"},
               [i \in 1..Len(t.rows) |->
                   [t.rows[i] EXCEPT !.lat = DummyLatitude, !.lon = DummyLongitude]])

\* The frame handed to process_location_data after the call (line 79 copies).
process_location_data_arg(t) == after_copy(t, process_location_data_written(t))

-----------------------------------------------------------------------------
(* Loading *)

Unreadable == [readable |-> FALSE, t |-> Frame({}, <<>>)]
Csv(t) == [readable |-> TRUE, t |-> t]

\* A load result: the frame, whether the load gave one at all, and whether
\* the frame is the except-branch's stand-in rather than the file's data.
Loaded(t) == [ok |-> TRUE, t |-> t, fabricated |-> FALSE]
Fabricated(t) == [ok |-> TRUE, t |-> t, fabricated |-> TRUE]
LoadFailed == [ok |-> FALSE, t |-> Frame({}, <<>>), fabricated |-> FALSE]

\* app.py load_data: any exception of read_csv or preprocess_data is caught,
\* None is returned and the script stops (st.stop()).
loaded_or_none(r) == IF r.ok THEN Loaded(r.t) ELSE LoadFailed

app_load_data(src) ==
    IF ~src.readable THEN LoadFailed ELSE loaded_or_none(preprocess_data(src.t))

\* dash_app.py load_data, except branch: 5000 generated rows with the columns
\* Make, Model, Model Year, Electric Vehicle Type, CAFV Eligibility, Electric
\* Range, County and Electric Utility.  Two of them stand for the 5000.
SampleFrame ==
    Frame(AllColumns \ {"Base MSRP", "Vehicle Location"},
          << [idx |-> 0, make |-> Text("TESLA"), model |-> Text("MODEL 3"),
              year |-> Text(<<"2", "0", "2", "0">>), range |-> Text(<<"2", "5", "0">>),
              msrp |-> NAs, evtype |-> Text("Battery Electric Vehicle (BEV)"),
              county |-> Text("KING"), cafv |-> Text("Eligible"),
              utility |-> Text(<<"A">>), location |-> NAs, lon |-> NoCoord,
              lat |-> NoCoord],
             [idx |-> 1, make |-> Text("NISSAN"), model |-> Text("LEAF"),
              year |-> Text(<<"2", "0", "2", "1">>), range |-> Text(<<"1", "5", "0">>),
              msrp |-> NAs, evtype |-> Text("Plug-in Hybrid Electric Vehicle (PHEV)"),
              county |-> Text("PIERCE"), cafv |-> Text("Not eligible"),
              utility |-> Text(<<"B">>), location |-> NAs, lon |-> NoCoord,
              lat |-> NoCoord] >>)

loaded_or_sample(r) ==
    IF r.ok THEN Loaded(r.t) ELSE Fabricated(preprocess_data(SampleFrame).t)

dash_load_data(src) ==
    loaded_or_sample(IF src.readable THEN preprocess_data(src.t) ELSE Raised)

\* hybrid_dash_app.py load_data, except branch: one row saying so.
ErrorFrame ==
    Frame({"Make", "Model", "Model Year", "Electric Vehicle Type", "County"},
          << [idx |-> 0, make |-> Text("Data Load Error"), model |-> Text("Check Console"),
              year |-> Num(2023), range |-> NAs, msrp |-> NAs, evtype |-> Text("Error"),
              county |-> Text("Error"), cafv |-> NA, utility |-> NAs,
              location |-> NAs, lon |-> NoCoord, lat |-> NoCoord] >>)

\* hybrid_dash_app.py load_data: Model Year to numeric, rows without one
\* dropped, nothing else normalised.
hybrid_load_data(src) ==
    IF ~src.readable \/ "Model Year" \notin src.t.cols THEN Fabricated(ErrorFrame)
    ELSE LET Row(r) == [r EXCEPT !.year = to_numeric(r.year)]
             HasYear(r) == ~r.year.nan
         IN  Loaded(Frame(src.t.cols, SelectSeq([i \in 1..Len(src.t.rows) |-> Row(src.t.rows[i])], HasYear)))

load_data(v, src) ==
    CASE v = "streamlit" -> app_load_data(src)
      [] v = "dash" -> dash_load_data(src)
      [] v = "hybrid" -> hybrid_load_data(src)

-----------------------------------------------------------------------------
(* The filter step and the aggregates the dashboards compute *)

\* df[column] at one row, for the columns the filters and counts read.
Cell(r, column) ==
    CASE column = "Make" -> r.make
      [] column = "Model" -> r.model
      [] column = "Electric Vehicle Type" -> r.evtype
      [] column = "County" -> r.county
      [] column = "Clean Alternative Fuel Vehicle (CAFV) Eligibility" -> r.cafv

\* isin_step without the "if selected:" guard: an empty selected list selects
\* df[df[col].isin([])], which is no row.
isin_step_unguarded(rows, column, selected) ==
    LET Keep(r) == ~Cell(r, column).na /\ Cell(r, column).s \in selected
    IN  SelectSeq(rows, Keep)

\* The selection taken from the module's table instead of from the rows the
\* earlier selections left.
isin_step_of_table(rows, column, selected) ==
    LET Keep(r) == ~Cell(r, column).na /\ Cell(r, column).s \in selected
    IN  IF selected # {} THEN SelectSeq(df.t.rows, Keep) ELSE rows

\* One boolean-mask selection df[df[col].isin(selected)], applied only when
\* the selected list is truthy (non-empty).
isin_step(rows, column, selected) ==
    LET Keep(r) == ~Cell(r, column).na /\ Cell(r, column).s \in selected
    IN  IF selected # {} THEN SelectSeq(rows, Keep) ELSE rows

\* df[(df['Model Year'] >= year_range[0]) & (df['Model Year'] <= year_range[1])]:
\* a comparison with NaN is False.
year_step(rows, year_range) ==
    LET Keep(r) == ~r.year.nan /\ r.year.v >= year_range[1] /\ r.year.v <= year_range[2]
    IN  SelectSeq(rows, Keep)


\* The five successive selections of app.py, dash_app.py and
\* hybrid_dash_app.py, in the code's order.  hybrid_dash_app.py guards the year
\* selection with "if year_range:", which the slider's two-element value
\* always satisfies.
apply_filters(rows, s) ==
    LET f1 == year_step(rows, s.year)
        f2 == isin_step(f1, "Make", s.makes)
        f3 == isin_step(f2, "Electric Vehicle Type", s.evtypes)
        f4 == isin_step(f3, "County", s.counties)
    IN  isin_step(f4, "Clean Alternative Fuel Vehicle (CAFV) Eligibility", s.cafv)

\* The k-th of the five selections, on its own.
filter_step(rows, s, k) ==
    CASE k = 1 -> year_step(rows, s.year)
      [] k = 2 -> isin_step(rows, "Make", s.makes)
      [] k = 3 -> isin_step(rows, "Electric Vehicle Type", s.evtypes)
      [] k = 4 -> isin_step(rows, "County", s.counties)
      [] k = 5 -> isin_step(rows, "Clean Alternative Fuel Vehicle (CAFV) Eligibility", s.cafv)

\* Series.value_counts(): NaN keys dropped, one count per distinct key,
\* descending by count.
RECURSIVE CountKeys(_, _, _)
CountKeys(view, column, rows) ==
    IF rows = <<>> THEN view
    ELSE LET key == Cell(Head(rows), column)
         IN  CountKeys(IF key.na THEN view ELSE Increment(view, key.s),
                       column, Tail(rows))

value_counts(rows, column) == sort_by_count(CountKeys(<<>>, column, rows))

RECURSIVE SumCounts(_)
SumCounts(view) == IF view = <<>> THEN 0 ELSE Head(view)[2] + SumCounts(Tail(view))

RECURSIVE SumRange(_)
SumRange(rows) == IF rows = <<>> THEN 0 ELSE Head(rows).range.v + SumRange(Tail(rows))

\* Series.mean() as the exact fraction num/den; NaN for an empty series.
Mean(num, den) == [nan |-> FALSE, num |-> num, den |-> den]
MeanNaN == [nan |-> TRUE, num |-> 0, den |-> 1]
mean_range(rows) == IF rows = <<>> THEN MeanNaN ELSE Mean(SumRange(rows), Len(rows))

\* int(x) of a non-negative float: truncation.
int_of(m) == m.num \div m.den

positive_range(rows) ==
    LET Pos(r) == r.range.v > 0
    IN  SelectSeq(rows, Pos)

Indexes(rows) == [i \in 1..Len(rows) |-> rows[i].idx]

\* df.groupby('Model Year').size(): one <<year, count>> per year that a row
\* has; groupby leaves out the rows whose key is NaN.
groupby_year(rows) ==
    LET years == {rows[i].year.v : i \in {j \in 1..Len(rows) : ~rows[j].year.nan}}
        Size(y) == Cardinality({i \in 1..Len(rows) : ~rows[i].year.nan /\ rows[i].year.v = y})
    IN  {<<y, Size(y)>> : y \in years}

\* df.groupby(['Model Year', 'Electric Vehicle Type']).size(): rows with
\* either key NaN are left out.
groupby_year_type(rows) ==
    LET Keyed(r) == ~r.year.nan /\ ~r.evtype.na
        keys == {<<rows[i].year.v, rows[i].evtype.s>> : i \in {j \in 1..Len(rows) : Keyed(rows[j])}}
        Size(k) == Cardinality({i \in 1..Len(rows) :
                        Keyed(rows[i]) /\ <<rows[i].year.v, rows[i].evtype.s>> = k})
    IN  {<<k[1], k[2], Size(k)>> : k \in keys}

-----------------------------------------------------------------------------
(* What a recomputation produces *)

View(data) == [shown |-> TRUE, data |-> data]
NotShown == [shown |-> FALSE, data |-> <<>>]
Metric(v) == [shown |-> TRUE, v |-> v]
NoMetric == [shown |-> FALSE, v |-> 0]
Line(m) == [shown |-> TRUE, avg |-> m]
NoLine == [shown |-> FALSE, avg |-> MeanNaN]
CountMsg(n) == [kind |-> "count", n |-> n]
NoMatchMsg == [kind |-> "nomatch", n |-> 0]
NoMsg == [kind |-> "none", n |-> 0]

Groups(data) == [shown |-> TRUE, data |-> data]
NoGroups == [shown |-> FALSE, data |-> {}]

Blank ==
    [status |-> "ok",            \* "ok" | "raised" | "failed" (no start)
     ret |-> <<>>,               \* dash_app: the kinds of the returned values
     filtered |-> <<>>,          \* index labels of filtered_df
     count_msg |-> NoMsg,        \* the filtered-records text
     metric_range |-> NoMetric,  \* the "Average Electric Range" metric
     range_line |-> NoLine,      \* the range histogram's average line
     make_counts |-> NotShown,   \* the top-makes chart's data
     utility |-> NotShown,       \* the utility chart's data
     map |-> NotShown,           \* the location map's points
     year_counts |-> NoGroups,   \* the adoption trend: rows per Model Year
     type_year_counts |-> NoGroups,  \* rows per Model Year and EV type
     mfr_options |-> <<>>,       \* dash_app: manufacturer-selector.options
     mfr_models |-> NotShown,    \* dash_app: the selected manufacturer's models
     mfr_value |-> NA]           \* dash_app: manufacturer-selector.value

NumOutputs == 20

Figures(n) == [i \in 1..n |-> "figure"]
Metrics == <<"text", "card", "card", "card", "card">>

\* dash_app.py line 363, the list returned when nothing matches.
NoMatchReturn == Metrics \o Figures(15) \o <<"options", "value", "figure">>

\* dash_app.py lines 473-494.
FullReturn == Metrics \o Figures(8) \o <<"options", "value">> \o Figures(5)

TopMakesShown == 10
TopMakesCompared == 8

\* viz.create_range_distribution_chart(range_df): the dashed line at
\* range_df['Electric Range'].mean().
create_range_distribution_chart(range_rows) == Line(mean_range(range_rows))

\* The points create_location_map plots.
Points(rows) ==
    [i \in 1..Len(rows) |-> [idx |-> rows[i].idx, lon |-> rows[i].lon, lat |-> rows[i].lat]]

\* "if not map_data.empty: fig_map = viz.create_location_map(map_data)"
create_location_map(map_data) ==
    IF map_data.t.rows # <<>> THEN View(Points(map_data.t.rows)) ELSE NotShown

\* app.py line 200
has_location_data(t, filtered) ==
    /\ "Vehicle Location" \in t.cols
    /\ \E i \in 1..Len(filtered) : ~filtered[i].location.na

\* dash_app.py update_dashboard.  Dash takes the returned list only when it
\* has one value per declared Output and raises otherwise.
\* The selector's value given up whenever one is selected.
manufacturer_selector_cleared(page, top_makes, selected_mfr) ==
    [page EXCEPT
       !.mfr_options = [i \in 1..Len(top_makes) |-> top_makes[i][1]],
       !.mfr_value = IF selected_mfr.na /\ top_makes # <<>>
                     THEN Text(top_makes[1][1]) ELSE NA]

\* Lines 437-441: the manufacturer selector's options are the top makes, its
\* value is the first of them unless one is selected.
manufacturer_selector(page, top_makes, selected_mfr) ==
    [page EXCEPT
       !.mfr_options = [i \in 1..Len(top_makes) |-> top_makes[i][1]],
       !.mfr_value = IF selected_mfr.na /\ top_makes # <<>>
                     THEN Text(top_makes[1][1]) ELSE selected_mfr]

\* Lines 444-453: the models of the selected manufacturer among the filtered
\* rows, or the "Please select a manufacturer" figure.
manufacturer_models(page, filtered) ==
    [page EXCEPT
       !.mfr_models = IF page.mfr_value.na THEN NotShown
                      ELSE View(value_counts(isin_step(filtered, "Make", {page.mfr_value.s}),
                                             "Model"))]

\* The values update_dashboard returns for the rows left by the filters.
dashboard_outputs(cols, filtered, selected_mfr, g) ==
    IF filtered = <<>>
    THEN [Blank EXCEPT !.ret = NoMatchReturn,
                       !.count_msg = NoMatchMsg,
                       !.metric_range = Metric(0)]
    ELSE manufacturer_models(manufacturer_selector(
             [Blank EXCEPT
                !.ret = FullReturn,
                !.filtered = Indexes(filtered),
                !.count_msg = CountMsg(Len(filtered)),
                !.metric_range = Metric(int_of(mean_range(filtered))),
                !.make_counts =
                    View(head(value_counts(filtered, "Make"), TopMakesShown)),
                !.range_line =
                    create_range_distribution_chart(positive_range(filtered)),
                !.utility = View(process_utility_data(Frame(cols, filtered))),
                !.map = create_location_map(
                            process_location_data(Frame(cols, filtered), g)),
                !.year_counts = Groups(groupby_year(filtered)),
                !.type_year_counts = Groups(groupby_year_type(filtered))],
             head(value_counts(filtered, "Make"), TopMakesCompared),
             selected_mfr), filtered)

\* Dash takes the returned list only when it has one value per declared
\* Output.
returned(res) ==
    [res EXCEPT !.status = IF Len(res.ret) = NumOutputs THEN "ok" ELSE "raised"]

update_dashboard(t, s, selected_mfr, g) ==
    returned(dashboard_outputs(t.cols, apply_filters(t.rows, s), selected_mfr, g))

\* app.py lines 104-298, one run of the script.  int(NaN) raises ValueError
\* at line 152 when filtered_df is empty: what was written before stays on
\* the page, nothing after it is rendered.
script_page(t, filtered, sidebar, g) ==
    IF mean_range(filtered).nan
    THEN [sidebar EXCEPT !.status = "raised"]
    ELSE [sidebar EXCEPT
            !.metric_range = Metric(int_of(mean_range(filtered))),
            !.make_counts =
                View(head(value_counts(filtered, "Make"), TopMakesShown)),
            !.range_line = create_range_distribution_chart(positive_range(filtered)),
            !.map = IF has_location_data(t, filtered)
                    THEN create_location_map(
                             process_location_data(Frame(t.cols, filtered), g))
                    ELSE NotShown,
            !.utility = IF "Electric Utility" \in t.cols
                        THEN View(process_utility_data(Frame(t.cols, filtered)))
                        ELSE NotShown,
            !.year_counts = Groups(groupby_year(filtered)),
            !.type_year_counts = Groups(groupby_year_type(filtered))]

\* Line 128: the filtered-records count in the sidebar.
script_sidebar(filtered) ==
    [Blank EXCEPT !.filtered = Indexes(filtered), !.count_msg = CountMsg(Len(filtered))]

script_filtered(t, filtered, g) == script_page(t, filtered, script_sidebar(filtered), g)

streamlit_script(t, s, g) == script_filtered(t, apply_filters(t.rows, s), g)

Tabs == {"tab-overview", "tab-geo", "tab-manufacturer", "tab-trends"}

\* The columns update_tab_content reads: those of the selections that are
\* applied, and those of the selected tab's charts.
hybrid_columns_read(tb, s) ==
    {"Model Year"}
      \cup (IF s.makes # {} THEN {"Make"} ELSE {})
      \cup (IF s.evtypes # {} THEN {"Electric Vehicle Type"} ELSE {})
      \cup (IF s.counties # {} THEN {"County"} ELSE {})
      \cup (IF s.cafv # {} THEN {"Clean Alternative Fuel Vehicle (CAFV) Eligibility"} ELSE {})
      \cup (CASE tb = "tab-overview" ->
                   {"Make", "Model", "Electric Vehicle Type", "Clean Alternative Fuel Vehicle (CAFV) Eligibility", "County"}
              [] tb = "tab-geo" -> {"County", "Electric Vehicle Type"}
              [] tb = "tab-manufacturer" -> {"Make", "Electric Vehicle Type", "Model"}
              [] tb = "tab-trends" -> {"Model Year", "Electric Vehicle Type", "Make"})

TopMakesModels == 5

\* hybrid_dash_app.py update_tab_content: the table is loaded again, filtered,
\* and the selected tab's charts are built.  A missing column raises KeyError;
\* on the manufacturer tab pd.concat raises ValueError when the list of
\* per-make frames is empty, which it is when no make is left.
tab_content(filtered, tb, done) ==
    CASE tb = "tab-overview" ->
           [done EXCEPT
              !.count_msg = CountMsg(Len(filtered)),
              !.make_counts =
                  View(head(value_counts(filtered, "Make"), TopMakesShown))]
      [] tb = "tab-manufacturer" ->
           IF head(value_counts(filtered, "Make"), TopMakesModels) = <<>>
           THEN [done EXCEPT !.status = "raised"] ELSE done
      [] tb = "tab-trends" ->
           [done EXCEPT
              !.year_counts = Groups(groupby_year(filtered)),
              !.type_year_counts = Groups(groupby_year_type(filtered))]
      [] OTHER -> done

tab_filtered(filtered, tb) ==
    tab_content(filtered, tb, [Blank EXCEPT !.filtered = Indexes(filtered)])

tab_of_table(t, tb, s) ==
    IF ~(hybrid_columns_read(tb, s) \subseteq t.cols)
    THEN [Blank EXCEPT !.status = "raised"]
    ELSE tab_filtered(apply_filters(t.rows, s), tb)

update_tab_content(src, tb, s) == tab_of_table(hybrid_load_data(src).t, tb, s)

recompute(v, src, t, s, tb, m, g) ==
    CASE v = "streamlit" -> streamlit_script(t, s, g)
      [] v = "dash" -> update_dashboard(t, s, m, g)
      [] v = "hybrid" -> update_tab_content(src, tb, s)

\* The global generator after a recomputation: moved only by what
\* process_location_data draws from it, where the script calls it.
rng_filtered(v, t, filtered, g) ==
    IF \/ v = "dash" /\ filtered # <<>>
       \/ v = "streamlit" /\ filtered # <<>> /\ has_location_data(t, filtered)
    THEN process_location_data(Frame(t.cols, filtered), g).rng
    ELSE g

rng_after(v, t, s, g) == rng_filtered(v, t, apply_filters(t.rows, s), g)

-----------------------------------------------------------------------------
(* The filter widgets *)

ValuesOf(rows, column) ==
    {Cell(rows[i], column).s : i \in {j \in 1..Len(rows) : ~Cell(rows[j], column).na}}
Years(rows) == {rows[i].year.v : i \in {j \in 1..Len(rows) : ~rows[j].year.nan}}
SetMin(S) == CHOOSE x \in S : \A y \in S : x <= y
SetMax(S) == CHOOSE x \in S : \A y \in S : x >= y

\* hybrid_dash_app.py create_dashboard_layout offers 'Unknown' for a missing
\* CAFV value (fillna); the other dashboards offer the column's own values.
CafvOptions(v, rows) ==
    ValuesOf(rows, "Clean Alternative Fuel Vehicle (CAFV) Eligibility")
      \cup (IF v = "hybrid" /\ \E i \in 1..Len(rows) : rows[i].cafv.na
            THEN {"Unknown"} ELSE {})

LayoutColumns ==
    {"Model Year", "Make", "Electric Vehicle Type", "County", "Clean Alternative Fuel Vehicle (CAFV) Eligibility"}

\* The layout is built from the loaded table: each dashboard reads the five
\* filter columns and takes int(min)/int(max) of Model Year, which raises
\* when no row has a year.  app.py stops when load_data returned None.
starts(ld) == ld.ok /\ LayoutColumns \subseteq ld.t.cols /\ Years(ld.t.rows) # {}

DefaultSel(rows) ==
    [year |-> <<SetMin(Years(rows)), SetMax(Years(rows))>>,
     makes |-> {}, evtypes |-> {}, counties |-> {}, cafv |-> {}]

NoSel == [year |-> <<0, 0>>, makes |-> {}, evtypes |-> {}, counties |-> {}, cafv |-> {}]

Toggle(S, x) == IF x \in S THEN S \ {x} ELSE S \cup {x}

\* The selections one widget change away from s.
FilterChanges(v, rows, s) ==
    {[s EXCEPT !.year = yr] :
        yr \in {y \in (SetMin(Years(rows))..SetMax(Years(rows)))
                        \X (SetMin(Years(rows))..SetMax(Years(rows))) : y[1] <= y[2]}}
      \cup {[s EXCEPT !.makes = Toggle(@, x)] : x \in ValuesOf(rows, "Make")}
      \cup {[s EXCEPT !.evtypes = Toggle(@, x)] : x \in ValuesOf(rows, "Electric Vehicle Type")}
      \cup {[s EXCEPT !.counties = Toggle(@, x)] : x \in ValuesOf(rows, "County")}
      \cup {[s EXCEPT !.cafv = Toggle(@, x)] : x \in CafvOptions(v, rows)}

-----------------------------------------------------------------------------
(* The source tables *)

MaxRows == 2

BEV == "Battery Electric Vehicle (BEV)"
PHEV == "Plug-in Hybrid Electric Vehicle (PHEV)"

\* 'POINT (<lon> <lat>)'
PointText(lon, lat) == PointOpen \o lon \o <<" ">> \o lat \o <<")">>

BaseRow ==
    [make |-> Text("TESLA"), model |-> Text("MODEL 3"), year |-> Text(Chars("2020")),
     range |-> Text(Chars("250")), msrp |-> Text(Chars("0")), evtype |-> Text(BEV),
     county |-> Text("KING"), cafv |-> Text("Eligible"), utility |-> Text(<<"A">>),
     location |-> Text(PointText(<<"-", "1", "2", "2", ".", "3">>, <<"4", "7", ".", "6">>))]

\* The CSV rows: the base row and every row that differs from it in one cell.
RowPool ==
    {BaseRow}
      \cup {[BaseRow EXCEPT !.make = x] : x \in {Text("NISSAN"), NA}}
      \cup {[BaseRow EXCEPT !.year = x] : x \in {Text(Chars("2021")), Text(Chars("bad"))}}
      \cup {[BaseRow EXCEPT !.range = x] : x \in {Text(Chars("0"))}}
      \cup {[BaseRow EXCEPT !.evtype = x] : x \in {Text(PHEV)}}
      \cup {[BaseRow EXCEPT !.county = x] : x \in {Text("PIERCE")}}
      \cup {[BaseRow EXCEPT !.cafv = x] : x \in {Text("Not eligible"), NA}}

\* pd.read_csv numbers the rows from 0.
WithIndex(cells) ==
    [i \in 1..Len(cells) |->
        [idx |-> i - 1, make |-> cells[i].make, model |-> cells[i].model,
         year |-> cells[i].year, range |-> cells[i].range, msrp |-> cells[i].msrp,
         evtype |-> cells[i].evtype, county |-> cells[i].county,
         cafv |-> cells[i].cafv, utility |-> cells[i].utility,
         location |-> cells[i].location, lon |-> NoCoord, lat |-> NoCoord]]

Tables(pool, n) == UNION {[1..k -> pool] : k \in 0..n}

Sources == {Csv(Frame(AllColumns, WithIndex(cells))) : cells \in Tables(RowPool, MaxRows)}

Variants == {"streamlit", "dash", "hybrid"}

-----------------------------------------------------------------------------
(* The state machine *)

MaxReads == 3

\* One more pd.read_csv call; the count stops at MaxReads.
read_again(n) == IF n < MaxReads THEN n + 1 ELSE n

\* static_html_dashboard.py: no ev_dashboard.html, no request answered yet.
NoFile == [exists |-> FALSE, content |-> <<>>]
NoResponse == [kind |-> "none", content |-> <<>>]

\* The process has loaded the table and built its layout with the widgets at
\* s; the page's first rendering is pending.  A process whose layout raises
\* never serves a page.
Start(v, src, s) ==
    /\ variant = v
    /\ source = src
    /\ df = load_data(v, src)
    /\ tab = "tab-overview"
    /\ mfr = NA
    /\ out = Blank
    /\ ties \in TieOrders
    /\ reads = 1
    /\ file = NoFile
    /\ response = NoResponse
    /\ IF starts(df)
       THEN sel = s /\ lastEvent = "load"
       ELSE sel = NoSel /\ lastEvent = "failed"

\* The widgets' values in the layout built from the load result.
InitialSel(ld) == IF starts(ld) THEN DefaultSel(ld.t.rows) ELSE NoSel

StartDefault(v, src) == Start(v, src, InitialSel(load_data(v, src)))

\* The dashboards draw nothing from the global generator unless
\* process_location_data does; the runs that vary its state are SpecSample's.
Init == rng = 1 /\ \E v \in Variants, src \in Sources : StartDefault(v, src)

\* hybrid_dash_app.py line 298: every run of update_tab_content calls
\* load_data(), which reads the file.
Recomputed(res, g) ==
    /\ out' = res
    /\ rng' = g
    /\ reads' = IF variant = "hybrid" THEN read_again(reads) ELSE reads
    /\ mfr' = IF variant = "dash" /\ res.status = "ok" THEN res.mfr_value ELSE mfr
    /\ lastEvent' = "callback"

\* The callback has run with the manufacturer selector at m.
Selected(res, g, m) ==
    /\ out' = res
    /\ rng' = g
    /\ reads' = reads
    /\ mfr' = IF res.status = "ok" THEN res.mfr_value ELSE m

\* The first rendering: app.py's script runs, Dash fires the callback with the
\* layout's values.
Render ==
    /\ lastEvent = "load"
    /\ Recomputed(recompute(variant, source, df.t, sel, tab, mfr, rng),
                  rng_after(variant, df.t, sel, rng))
    /\ UNCHANGED <<variant, source, df, sel, tab, ties, file, response>>

\* A filter widget changes.  app.py reruns its script and dash_app.py's
\* callback fires (the five filters are its Inputs); in hybrid_dash_app.py the
\* filters are State of the callback, which does not fire.
ChangeFilter ==
    /\ lastEvent \in {"callback", "state"}
    /\ \E s2 \in FilterChanges(variant, df.t.rows, sel) \ {sel} :
         /\ sel' = s2
         /\ IF variant = "hybrid"
            THEN lastEvent' = "state" /\ UNCHANGED <<out, mfr, rng, reads>>
            ELSE Recomputed(recompute(variant, source, df.t, s2, tab, mfr, rng),
                            rng_after(variant, df.t, s2, rng))
    /\ UNCHANGED <<variant, source, df, tab, ties, file, response>>

\* dash_app.py: the user picks a manufacturer among the offered options (or
\* clears the selector), which is an Input of update_dashboard.
SelectManufacturer ==
    /\ lastEvent = "callback"
    /\ variant = "dash"
    /\ \E m \in {Text(out.mfr_options[i]) : i \in 1..Len(out.mfr_options)} \cup {NA} :
         /\ m # mfr
         /\ Selected(update_dashboard(df.t, sel, m, rng),
                     rng_after(variant, df.t, sel, rng), m)
    /\ lastEvent' = "callback"
    /\ UNCHANGED <<variant, source, df, sel, tab, ties, file, response>>

\* hybrid_dash_app.py: the Apply Filters button is clicked.
ApplyFilters ==
    /\ lastEvent \in {"callback", "state"}
    /\ variant = "hybrid"
    /\ Recomputed(update_tab_content(source, tab, sel), rng)
    /\ UNCHANGED <<variant, source, df, sel, tab, ties, file, response>>

\* hybrid_dash_app.py: another tab is selected.
SwitchTab ==
    /\ lastEvent \in {"callback", "state"}
    /\ variant = "hybrid"
    /\ \E tb \in Tabs \ {tab} :
         /\ tab' = tb
         /\ Recomputed(update_tab_content(source, tb, sel), rng)
    /\ UNCHANGED <<variant, source, df, sel, ties, file, response>>

Next == Render \/ ChangeFilter \/ SelectManufacturer \/ ApplyFilters \/ SwitchTab

Spec == Init /\ [][Next]_vars

-----------------------------------------------------------------------------
(* The filter step alone: the page is rendered once, for any table and any
   values of the filter widgets *)

YearRanges(rows) ==
    IF Years(rows) = {} THEN {<<0, 0>>}
    ELSE {y \in (SetMin(Years(rows))..SetMax(Years(rows)))
                  \X (SetMin(Years(rows))..SetMax(Years(rows))) : y[1] <= y[2]}

Selections(v, rows) ==
    [year : YearRanges(rows),
     makes : SUBSET ValuesOf(rows, "Make"),
     evtypes : SUBSET ValuesOf(rows, "Electric Vehicle Type"),
     counties : SUBSET ValuesOf(rows, "County"),
     cafv : SUBSET CafvOptions(v, rows)]

InitFilter ==
    /\ rng = 1
    /\ \E v \in Variants, src \in Sources :
         \E s \in Selections(v, load_data(v, src).t.rows) : Start(v, src, s)

SpecFilter == InitFilter /\ [][Render]_vars

\* The table the last recomputation filtered.
TableOf == IF variant = "hybrid" THEN hybrid_load_data(source).t ELSE df.t

InSelected(cell, selected) == selected = {} \/ (~cell.na /\ cell.s \in selected)

Retained(r, s) ==
    /\ ~r.year.nan /\ s.year[1] <= r.year.v /\ r.year.v <= s.year[2]
    /\ InSelected(r.make, s.makes)
    /\ InSelected(r.evtype, s.evtypes)
    /\ InSelected(r.county, s.counties)
    /\ InSelected(r.cafv, s.cafv)

RetainedNow(r) == Retained(r, sel)

\* C1: in every dashboard the filter step keeps a row of the table iff its
\* Model Year lies in the selected range and, on each of make, EV type, county
\* and CAFV eligibility, the selected set is empty or holds the row's value.
C1_FilterRetainsIff ==
    lastEvent = "callback" =>
        out.filtered = Indexes(SelectSeq(TableOf.rows, RetainedNow))

\* Two dimensions are restricted, one row is kept and one is dropped.
C1_Witness ==
    /\ lastEvent = "callback"
    /\ sel.makes # {} /\ sel.counties # {} /\ sel.evtypes = {}
    /\ Len(TableOf.rows) = 2
    /\ Len(out.filtered) = 1

\* The five selections applied in the order given.
RECURSIVE apply_in_order(_, _, _)
apply_in_order(rows, s, order) ==
    IF order = <<>> THEN rows
    ELSE apply_in_order(filter_step(rows, s, Head(order)), s, Tail(order))

Orders == {o \in [1..5 -> 1..5] : \A i, j \in 1..5 : o[i] = o[j] => i = j}

\* C29: the rows the filter step keeps are the rows the five selections keep
\* in any order, and filtering them once more changes nothing.
C29_FilterOrderFree ==
    lastEvent = "callback" =>
        /\ \A o \in Orders : Indexes(apply_in_order(TableOf.rows, sel, o)) = out.filtered
        /\ apply_filters(apply_filters(TableOf.rows, sel), sel) = apply_filters(TableOf.rows, sel)

\* Two selections each drop a row the other keeps, and a third row passes
\* neither.
C29_Witness ==
    /\ lastEvent = "callback"
    /\ Len(TableOf.rows) = 2
    /\ sel.makes # {}
    /\ Indexes(year_step(TableOf.rows, sel.year)) = <<0>>
    /\ Indexes(isin_step(TableOf.rows, "Make", sel.makes)) = <<1>>
    /\ out.filtered = <<>>

-----------------------------------------------------------------------------
(* Claims about the interactive dashboards (Spec) *)

\* The rows of filtered_df in the last recomputation.
FilteredRows ==
    LET Kept(r) == \E i \in 1..Len(out.filtered) : out.filtered[i] = r.idx
    IN  SelectSeq(TableOf.rows, Kept)

\* C2: with no make, EV type, county or CAFV value selected and the year range
\* at its default [min Model Year, max Model Year], the filter step keeps as
\* many rows as the table preprocess_data produced has.
C2_EmptySelectionKeepsAll ==
    (/\ lastEvent = "callback"
     /\ variant \in {"streamlit", "dash"}
     /\ sel = DefaultSel(df.t.rows))
        => Len(apply_filters(df.t.rows, sel)) = Len(df.t.rows)

\* C3: the filtered row count equals the sum of the counts of the untruncated
\* count-by-make view of the same filtered rows.
C3_MakeCountsSumToTotal ==
    lastEvent = "callback" =>
        SumCounts(value_counts(FilteredRows, "Make")) = Len(FilteredRows)

\* C4: when the selection matches no row, the recomputation completes without
\* raising.
C4_NoMatchNeverRaises ==
    (/\ lastEvent = "callback"
     /\ \A i \in 1..Len(TableOf.rows) : ~RetainedNow(TableOf.rows[i]))
        => out.status = "ok"

\* C5: the reported range statistic is the mean of Electric Range over the
\* filtered rows whose range is above 0.
C5_RangeMeanOverPositive ==
    (/\ lastEvent = "callback"
     /\ out.metric_range.shown
     /\ positive_range(FilteredRows) # <<>>)
        => out.metric_range.v = int_of(mean_range(positive_range(FilteredRows)))

\* C6: on a non-empty filtered subset whose rows all have Electric Range 0, no
\* average is reported: neither a number on the metric nor an average line.
C6_AllZeroRangeIsNoData ==
    (/\ lastEvent = "callback"
     /\ variant \in {"streamlit", "dash"}
     /\ FilteredRows # <<>>
     /\ \A i \in 1..Len(FilteredRows) : FilteredRows[i].range.v = 0)
        => ~out.metric_range.shown /\ ~out.range_line.shown

-----------------------------------------------------------------------------
(* Utility fields: one rendering of tables whose Electric Utility cells vary *)

MaxPieces == 3

UtilityPieces == {<<"A">>, <<"B">>, <<" ">>, <<"|">>, WASuffix}

RECURSIVE Join(_)
Join(ps) == IF ps = <<>> THEN <<>> ELSE Head(ps) \o Join(Tail(ps))

\* The cells read_csv gives for the column: NaN for an empty cell, the text
\* as written for any other.
UtilityFields ==
    {NAs} \cup {Text(Join(ps)) : ps \in UNION {[1..k -> UtilityPieces] : k \in 1..MaxPieces}}

UtilitySources ==
    {Csv(Frame(AllColumns, WithIndex(cells))) :
        cells \in Tables({[BaseRow EXCEPT !.utility = u] : u \in UtilityFields}, MaxRows)}

InitUtility ==
    /\ rng = 1
    /\ \E v \in {"streamlit", "dash"}, src \in UtilitySources : StartDefault(v, src)

SpecUtility == InitUtility /\ [][Render]_vars

\* The names a row lists: its cleaned '|'-separated tokens.
ListedNames(cell) ==
    IF cell.na THEN {}
    ELSE LET toks == split(cell.s, "|")
         IN  {clean_utility(toks[i]) : i \in 1..Len(toks)}

RowsListing(u) ==
    {j \in 1..Len(FilteredRows) : u \in ListedNames(FilteredRows[j].utility)}

SomeUtilityField == \E j \in 1..Len(FilteredRows) : ~FilteredRows[j].utility.na

\* C7: the count the utility view gives for a utility is the number of
\* filtered rows that list it, and the view holds at most ten utilities in
\* descending order of count.
C7_UtilityCountsRows ==
    (lastEvent = "callback" /\ out.utility.shown /\ SomeUtilityField) =>
        LET view == out.utility.data
        IN  /\ Len(view) <= TopUtilities
            /\ \A i \in 1..Len(view) :
                  /\ view[i][1] # <<>> => view[i][2] = Cardinality(RowsListing(view[i][1]))
                  /\ i > 1 => view[i - 1][2] >= view[i][2]

\* C8: every name of the utility view is non-empty, carries no leading or
\* trailing whitespace and does not end with ' - (WA)'.
C8_NamesAreClean ==
    (lastEvent = "callback" /\ out.utility.shown /\ SomeUtilityField) =>
        \A i \in 1..Len(out.utility.data) :
            LET u == out.utility.data[i][1]
            IN  u # <<>> /\ strip(u) = u /\ ~endswith(u, WASuffix)

\* C9: when no filtered row has an Electric Utility value, the utility view is
\* empty.
C9_NoNamesGivesEmptyView ==
    (lastEvent = "callback" /\ ~SomeUtilityField) => out.utility.data = <<>>

-----------------------------------------------------------------------------
(* Absent columns: one rendering of tables that lack optional columns *)

MaxMissing == 1

\* A CSV without a column has no cell for it in any row.
WithoutCells(cols, c) ==
    [make |-> IF "Make" \in cols THEN c.make ELSE NA,
     model |-> IF "Model" \in cols THEN c.model ELSE NA,
     year |-> IF "Model Year" \in cols THEN c.year ELSE NAs,
     range |-> IF "Electric Range" \in cols THEN c.range ELSE NAs,
     msrp |-> IF "Base MSRP" \in cols THEN c.msrp ELSE NAs,
     evtype |-> IF "Electric Vehicle Type" \in cols THEN c.evtype ELSE NA,
     county |-> IF "County" \in cols THEN c.county ELSE NA,
     cafv |-> IF "Clean Alternative Fuel Vehicle (CAFV) Eligibility" \in cols THEN c.cafv ELSE NA,
     utility |-> IF "Electric Utility" \in cols THEN c.utility ELSE NAs,
     location |-> IF "Vehicle Location" \in cols THEN c.location ELSE NAs]

ColumnSets ==
    {AllColumns \ m : m \in {x \in SUBSET OptionalColumns : Cardinality(x) <= MaxMissing}}

\* The file is missing or unreadable, or it is a CSV with some column set.
LoadSources ==
    {Unreadable} \cup
    {Csv(Frame(cols, WithIndex([i \in 1..Len(cells) |-> WithoutCells(cols, cells[i])]))) :
        cols \in ColumnSets, cells \in Tables(RowPool, MaxRows)}

InitLoad == rng = 1 /\ \E v \in Variants, src \in LoadSources : StartDefault(v, src)

SpecLoad == InitLoad /\ [][Render]_vars

\* C10: a CSV that lacks Electric Range or Base MSRP still loads (the table
\* served is the file's), and a CSV that lacks Electric Utility gets no
\* utility view.
C10_AbsentColumnOnlyDisables ==
    /\ (source.t.cols \cup {"Electric Range", "Base MSRP"} = AllColumns)
          => df.ok /\ ~df.fabricated
    /\ (source.readable /\ lastEvent = "callback" /\ "Electric Utility" \notin source.t.cols)
          => ~out.utility.shown

\* C11: when the file cannot be read, loading gives no table (the failure
\* is what the caller gets) and no page is rendered from one.
C11_UnreadableGivesNoTable ==
    ~source.readable => ~df.ok /\ lastEvent = "failed"

-----------------------------------------------------------------------------
(* Vehicle Location: tables whose location cells vary, loaded and rendered *)

\* Texts of the class [-\d.]+ : three that spell a float and two that do not.
Lon1 == <<"-", "1", "2", "2", ".", "3">>
Lat1 == <<"4", "7", ".", "6", "0">>
Half == <<".", "5">>
Dash == <<"-">>
TwoDots == <<"1", ".", "2", ".", "3">>
Captures == {Lon1, Lat1, Half, Dash, TwoDots}

\* Texts the pattern does not match as a whole cell, one of which holds a
\* match inside.
OtherTexts ==
    { <<"g", "a", "r", "b", "a", "g", "e">>,
      <<"P", "O", "I", "N", "T", "(">> \o Lon1 \o <<" ">> \o Lat1 \o <<")">>,
      <<"p", "o", "i", "n", "t", " ", "(">> \o Lon1 \o <<" ">> \o Lat1 \o <<")">>,
      PointOpen \o Lon1 \o <<" ">> \o Lat1,
      PointOpen \o Lon1 \o <<" ", " ">> \o Lat1 \o <<")">>,
      PointOpen \o <<" ">> \o Lon1 \o <<" ">> \o Lat1 \o <<")">>,
      PointOpen \o Lon1 \o <<" ">> \o Lat1 \o <<" ">> \o Half \o <<")">>,
      <<"x">> \o PointText(Lon1, Lat1) \o <<"y">> }

LocationFields ==
    {NAs} \cup {Text(x) : x \in OtherTexts}
          \cup {Text(PointText(a, b)) : a \in Captures, b \in Captures}

LocationSources ==
    {Csv(Frame(AllColumns, WithIndex(cells))) :
        cells \in Tables({[BaseRow EXCEPT !.location = x] : x \in LocationFields}, MaxRows)}

InitLocation ==
    /\ rng = 1
    /\ \E v \in {"streamlit", "dash"}, src \in LocationSources : StartDefault(v, src)

SpecLocation == InitLocation /\ [][Render]_vars

\* The float a text of Captures spells, if it spells one.
Spells(cs) ==
    CASE cs = Lon1 -> Coord(-1223, 1)
      [] cs = Lat1 -> Coord(476, 1)
      [] cs = Half -> Coord(5, 1)
      [] OTHER -> NoCoord

\* The table preprocess_data returned for the file's rows.
Parsed == df.ok /\ ~df.fabricated /\ Len(df.t.rows) = Len(source.t.rows)

\* C12: a row whose Vehicle Location is 'POINT (<lon> <lat>)' with two floats
\* gets the first as Longitude and the second as Latitude, whatever the other
\* rows hold.
C12_PointGivesLonLat ==
    Parsed =>
        \A i \in 1..Len(source.t.rows) : \A a \in Captures, b \in Captures :
            (/\ source.t.rows[i].location = Text(PointText(a, b))
             /\ ~Spells(a).nan /\ ~Spells(b).nan)
                => df.t.rows[i].lon = Spells(a) /\ df.t.rows[i].lat = Spells(b)

C12_Witness ==
    /\ Parsed
    /\ Len(source.t.rows) = 2
    /\ source.t.rows[1].location = Text(PointText(Lon1, Lat1))
    /\ source.t.rows[2].location = Text(<<"g", "a", "r", "b", "a", "g", "e">>)
    /\ df.t.rows[1].lon = Coord(-1223, 1)
    /\ df.t.rows[1].lat = Coord(476, 1)

\* A cell that holds the pattern with two floats, alone or inside other text.
HoldsPoint(cell) ==
    \E a \in Captures, b \in Captures :
        /\ ~Spells(a).nan /\ ~Spells(b).nan
        /\ cell \in {Text(PointText(a, b)), Text(<<"x">> \o PointText(a, b) \o <<"y">>)}

\* C13: location parsing never raises, and a row whose Vehicle Location does
\* not hold the pattern with two floats gets null Longitude and null Latitude.
C13_MismatchGivesNulls ==
    /\ df.ok /\ ~df.fabricated
    /\ \A i \in 1..Len(df.t.rows) :
          ~HoldsPoint(source.t.rows[i].location)
              => df.t.rows[i].lon.nan /\ df.t.rows[i].lat.nan

\* The source row with index label k.
SourceRow(k) == source.t.rows[CHOOSE i \in 1..Len(source.t.rows) : source.t.rows[i].idx = k]

\* C14: every point of the map has the coordinates parsed from its own row's
\* Vehicle Location; a table without that column gives no points.
C14_NoFallbackCoordinates ==
    (lastEvent = "callback" /\ source.readable /\ ~df.fabricated) =>
        \A i \in 1..Len(out.map.data) :
            LET p == out.map.data[i]
                coords == str_extract(SourceRow(p.idx).location)
            IN  /\ "Vehicle Location" \in source.t.cols
                /\ p.lon = to_numeric_float(coords[1])
                /\ p.lat = to_numeric_float(coords[2])

-----------------------------------------------------------------------------
(* Sampling: tables around the map's point limit, rendered and re-rendered *)

MaxSampleRows == 3
MaxSeed == 2

\* Rows of two makes, with and without a location the pattern matches.
SampleRowPool ==
    {[BaseRow EXCEPT !.make = mk, !.location = loc] :
        mk \in {Text("TESLA"), Text("NISSAN")},
        loc \in {BaseRow.location, Text(<<"g", "a", "r", "b", "a", "g", "e">>)}}

SampleSources ==
    {Csv(Frame(cols, WithIndex([i \in 1..Len(cells) |-> WithoutCells(cols, cells[i])]))) :
        cols \in {AllColumns, AllColumns \ {"Vehicle Location"}},
        cells \in Tables(SampleRowPool, MaxSampleRows)}

\* numpy seeds its global generator from the operating system at start.
InitSample ==
    /\ rng \in 1..MaxSeed
    /\ \E v \in {"streamlit", "dash"}, src \in SampleSources : StartDefault(v, src)

NextSample == Render \/ SelectManufacturer

SpecSample == InitSample /\ [][NextSample]_vars

\* The filtered rows that have both coordinates, as process_location_data
\* receives them.
LocatedRows ==
    LET Located(r) == {"Latitude", "Longitude"} \subseteq df.t.cols /\ ~r.lat.nan /\ ~r.lon.nan
    IN  SelectSeq(FilteredRows, Located)

\* C15: the map's rows are filtered rows that have both coordinates: all of
\* them when they are at most max_points, and max_points distinct ones of
\* them otherwise.
C15_SubsetIsLocatedRows ==
    (lastEvent = "callback" /\ out.status = "ok" /\ out.map.shown) =>
        LET ids == {out.map.data[i].idx : i \in 1..Len(out.map.data)}
            located == {LocatedRows[i].idx : i \in 1..Len(LocatedRows)}
        IN  /\ ids \subseteq located
            /\ Cardinality(ids) = Len(out.map.data)
            /\ Len(LocatedRows) <= max_points => ids = located
            /\ Len(LocatedRows) > max_points => Cardinality(ids) = max_points

\* C16: a recomputation with the table and the selection of the one before
\* gives the same map points and the same aggregates.
C16_SameInputsSameResult ==
    [][(/\ lastEvent = "callback" /\ lastEvent' = "callback"
        /\ df' = df /\ sel' = sel)
          => /\ out'.map = out.map
             /\ out'.filtered = out.filtered
             /\ out'.make_counts = out.make_counts
             /\ out'.utility = out.utility
             /\ out'.metric_range = out.metric_range
             /\ out'.range_line = out.range_line]_vars

\* The page was recomputed for another manufacturer while the map shows a
\* sample of the located rows.
C16_Witness ==
    /\ lastEvent = "callback"
    /\ variant = "dash"
    /\ Len(out.mfr_options) = 2
    /\ mfr = Text(out.mfr_options[2])
    /\ Len(LocatedRows) > max_points
    /\ Len(out.map.data) = max_points

-----------------------------------------------------------------------------
(* preprocess_data: tables with malformed cells, loaded and rendered *)

Garbage == Text(<<"g", "a", "r", "b", "a", "g", "e">>)
Bad == Text(Chars("bad"))

\* The base row, every row with one cell malformed or different, and the row
\* with every cell malformed.
MalformedRowPool ==
    {BaseRow}
      \cup {[BaseRow EXCEPT !.year = x] : x \in {Bad, NAs}}
      \cup {[BaseRow EXCEPT !.range = x] : x \in {Text(Chars("0")), Bad, NAs}}
      \cup {[BaseRow EXCEPT !.msrp = x] : x \in {Text(Chars("150")), Bad, NAs}}
      \cup {[BaseRow EXCEPT !.make = NA], [BaseRow EXCEPT !.model = NA],
            [BaseRow EXCEPT !.county = NA], [BaseRow EXCEPT !.evtype = NA]}
      \cup {[BaseRow EXCEPT !.location = x] : x \in {Garbage, NAs}}
      \cup {[make |-> NA, model |-> NA, year |-> Bad, range |-> Bad, msrp |-> Bad,
             evtype |-> NA, county |-> NA, cafv |-> NA, utility |-> NAs,
             location |-> Garbage]}

PreprocessSources ==
    {Csv(Frame(cols, WithIndex([i \in 1..Len(cells) |-> WithoutCells(cols, cells[i])]))) :
        cols \in {AllColumns, AllColumns \ {"Base MSRP"}},
        cells \in Tables(MalformedRowPool, MaxRows)}

InitPreprocess ==
    /\ rng = 1
    /\ \E v \in {"streamlit", "dash"}, src \in PreprocessSources : StartDefault(v, src)

SpecPreprocess == InitPreprocess /\ [][Render]_vars

\* The number a range or MSRP cell of the pool spells, 0 when it spells none.
SpelledOrZero(cell) ==
    CASE cell = Text(Chars("250")) -> 250
      [] cell = Text(Chars("150")) -> 150
      [] OTHER -> 0

\* preprocess_data returned the table the dashboard serves.
Preprocessed == source.readable /\ df.ok /\ ~df.fabricated

\* C17: preprocess_data keeps every row, gives Electric Range the number its
\* text spells and 0 when it spells none, and does the same to Base MSRP when
\* the column is present.
C17_UnparseableBecomesZero ==
    Preprocessed =>
        /\ Len(df.t.rows) = Len(source.t.rows)
        /\ \A i \in 1..Len(df.t.rows) :
              /\ df.t.rows[i].range = Num(SpelledOrZero(source.t.rows[i].range))
              /\ "Base MSRP" \in source.t.cols
                    => df.t.rows[i].msrp = Num(SpelledOrZero(source.t.rows[i].msrp))

C17_Witness ==
    /\ Preprocessed
    /\ "Base MSRP" \in source.t.cols
    /\ Len(source.t.rows) = 2
    /\ source.t.rows[1].range = Bad /\ df.t.rows[1].range = Num(0)
    /\ source.t.rows[2].msrp = NAs /\ df.t.rows[2].msrp = Num(0)
    /\ df.t.rows[2].range = Num(250)

\* C19: after preprocess_data every Make and Model is a text: 'Unknown' where
\* the file had none, the file's own text otherwise.
C19_MakeModelAreText ==
    Preprocessed =>
        \A i \in 1..Len(df.t.rows) :
            LET was == source.t.rows[i]
                is == df.t.rows[i]
            IN  /\ ~is.make.na /\ ~is.model.na
                /\ is.make = IF was.make.na THEN Text("Unknown") ELSE was.make
                /\ is.model = IF was.model.na THEN Text("Unknown") ELSE was.model

C19_Witness ==
    /\ Preprocessed
    /\ Len(source.t.rows) = 2
    /\ source.t.rows[1].make = NA /\ df.t.rows[1].make = Text("Unknown")
    /\ source.t.rows[2].model = NA /\ df.t.rows[2].model = Text("Unknown")
    /\ df.t.rows[2].make = Text("TESLA")

\* C30: preprocess_data given the table it returned returns that table again,
\* the coordinate columns and the 'Unknown' texts included.
C30_PreprocessIdempotent ==
    Preprocessed => preprocess_data(df.t) = Ok(df.t)

\* A table with a row of unusable cells and a row with coordinates.
C30_Witness ==
    /\ Preprocessed
    /\ "Vehicle Location" \in df.t.cols
    /\ Len(df.t.rows) = 2
    /\ source.t.rows[1].make = NA /\ df.t.rows[1].make = Text("Unknown")
    /\ source.t.rows[1].year = Bad /\ df.t.rows[1].year = NaN
    /\ source.t.rows[1].range = Bad /\ df.t.rows[1].range = Num(0)
    /\ df.t.rows[1].lon.nan
    /\ ~df.t.rows[2].lon.nan /\ ~df.t.rows[2].lat.nan
    /\ preprocess_data(df.t).ok

\* C20: for a file with the expected columns preprocess_data returns a table,
\* with as many rows as the file has, whatever its cells hold.
C20_BadCellsNeverAbort ==
    (source.readable /\ RequiredColumns \subseteq source.t.cols)
        => df.ok /\ ~df.fabricated /\ Len(df.t.rows) = Len(source.t.rows)

-----------------------------------------------------------------------------
(* Year-based aggregates: every table rendered, on every tab *)

NextTrends == Render \/ SwitchTab

SpecTrends == Init /\ [][NextTrends]_vars

\* The year a Model Year cell of the pool spells, if any.
SpellsYear(cell, y) ==
    \/ cell = Text(Chars("2020")) /\ y = 2020
    \/ cell = Text(Chars("2021")) /\ y = 2021

\* The index labels of the file's rows whose Model Year spells y.
FileRowsOfYear(y) ==
    {source.t.rows[i].idx : i \in {j \in 1..Len(source.t.rows) :
                                       SpellsYear(source.t.rows[j].year, y)}}

\* C18: in the views by year, every year's count is the number of filtered
\* rows whose Model Year text spells that year, so a row whose Model Year
\* spells none is under no year.
C18_UnparseableYearInNoYearView ==
    (lastEvent = "callback" /\ out.year_counts.shown) =>
        LET kept == {out.filtered[i] : i \in 1..Len(out.filtered)}
            TypeSum(y) == LET of_y == {g \in out.type_year_counts.data : g[1] = y}
                              RECURSIVE Sum(_)
                              Sum(S) == IF S = {} THEN 0
                                        ELSE LET g == CHOOSE x \in S : TRUE
                                             IN  g[3] + Sum(S \ {g})
                          IN  Sum(of_y)
        IN  /\ \A g \in out.year_counts.data :
                  g[2] = Cardinality(kept \cap FileRowsOfYear(g[1]))
            /\ \A g \in out.type_year_counts.data :
                  TypeSum(g[1]) <= Cardinality(kept \cap FileRowsOfYear(g[1]))

C18_Witness ==
    /\ lastEvent = "callback"
    /\ Len(source.t.rows) = 2
    /\ source.t.rows[2].year = Text(Chars("bad"))
    /\ out.year_counts = Groups({<<2020, 1>>})

-----------------------------------------------------------------------------
(* A session: a small table, every widget and every callback *)

SessionRowPool ==
    {BaseRow,
     [BaseRow EXCEPT !.make = Text("NISSAN")],
     [BaseRow EXCEPT !.make = Text("NISSAN"), !.year = Text(Chars("2021"))]}

SessionSources ==
    {Csv(Frame(cols, WithIndex(cells))) :
        cols \in {AllColumns, AllColumns \ {"Vehicle Location"}},
        cells \in Tables(SessionRowPool, MaxRows)}

InitSession ==
    /\ rng = 1
    /\ \E v \in Variants, src \in SessionSources : StartDefault(v, src)

SpecSession == InitSession /\ [][Next]_vars

\* C21: the module's table is at every moment the table the load gave, and
\* neither preprocess_data nor process_location_data changes the frame it is
\* handed.
C21_TableNeverMutated ==
    /\ df = load_data(variant, source)
    /\ source.readable => preprocess_data_arg(source.t) = source.t
    /\ df.ok => process_location_data_arg(df.t) = df.t

C21_Witness ==
    /\ variant = "dash"
    /\ lastEvent = "callback"
    /\ out.status = "ok"
    /\ out.map.shown
    /\ sel # DefaultSel(df.t.rows)
    /\ preprocess_data_written(source.t) # source.t
    /\ process_location_data_written(df.t) # df.t

\* C23: once the page is rendered, the rows its views show are at every moment
\* the rows the current filter values select.
C23_ViewsFollowFilters ==
    lastEvent \in {"callback", "state"} =>
        out.filtered = Indexes(apply_filters(TableOf.rows, sel))

\* The kinds of the twenty Outputs update_dashboard declares, in their order.
Outputs ==
    <<"text", "card", "card", "card", "card">>
      \o [i \in 1..8 |-> "figure"] \o <<"options", "value">> \o [i \in 1..5 |-> "figure"]

\* C25: whatever the filters select, update_dashboard returns one value per
\* declared Output, each of the kind its Output takes.
C25_ReturnFitsOutputs ==
    (variant = "dash" /\ lastEvent = "callback") => out.ret = Outputs

\* C26: the manufacturer update_dashboard returns as the selector's value is
\* None or one of the options it returns with it.
C26_ValueAmongOptions ==
    (variant = "dash" /\ lastEvent = "callback") =>
        \/ out.mfr_value.na
        \/ out.mfr_value.s \in {out.mfr_options[i] : i \in 1..Len(out.mfr_options)}

\* update_dashboard called again with the selector value it returned.
fed_back(t, s, res, g) == update_dashboard(t, s, res.mfr_value, g)

Settled(t, s, res, g) == fed_back(t, s, res, g) = res

\* C27: with the filters as they are, update_dashboard called with any
\* selector value returns a value with which it returns the same again.
C27_SelectorSettles ==
    (variant = "dash" /\ lastEvent = "callback") =>
        \A m \in {Text(x) : x \in ValuesOf(df.t.rows, "Make")} \cup {NA} :
            Settled(df.t, sel, update_dashboard(df.t, sel, m, rng), rng)

\* The callback ran with no manufacturer selected and returned the first of
\* the top makes, which the selector now holds.
C27_Witness ==
    /\ variant = "dash" /\ lastEvent = "callback" /\ out.status = "ok"
    /\ ~out.mfr_value.na /\ out.mfr_models.shown
    /\ Len(out.mfr_options) = 2
    /\ update_dashboard(df.t, sel, NA, rng) = out
    /\ fed_back(df.t, sel, out, rng) = out

\* C22: the process calls pd.read_csv once, at its start, and never again.
C22_SourceReadOnce == reads <= 1

-----------------------------------------------------------------------------
(* static_html_dashboard.py *)

StaticColumns == {"Model Year", "Make", "Model", "County", "Electric Vehicle Type"}
TopCounties == 15

NoContent == [make_counts |-> <<>>, county_counts |-> <<>>, year_counts |-> {}]
Generated(content) == [ok |-> TRUE, content |-> content]
NotGenerated == [ok |-> FALSE, content |-> NoContent]

\* Lines 21, 60 and 97: what the charts written into the page show.
static_charts(rows) ==
    [make_counts |-> head(value_counts(rows, "Make"), TopMakesShown),
     county_counts |-> head(value_counts(rows, "County"), TopCounties),
     year_counts |-> groupby_year(rows)]

\* generate_dashboard(): the file is read, Model Year made numeric and the
\* rows without one dropped (as in hybrid_dash_app.py load_data), the charts
\* built and the page written.  Any exception is caught and False returned,
\* with nothing written.
generate_dashboard(src) ==
    IF ~src.readable \/ ~(StaticColumns \subseteq src.t.cols) THEN NotGenerated
    ELSE Generated(static_charts(hybrid_load_data(src).t.rows))

File(content) == [exists |-> TRUE, content |-> content]
FileResponse(content) == [kind |-> "file", content |-> content]
ErrorResponse == [kind |-> "error", content |-> NoContent]

\* open('ev_dashboard.html', 'w') and f.write, reached only when nothing
\* raised before.
written_file(gen, old) == IF gen.ok THEN File(gen.content) ELSE old

\* send_file('ev_dashboard.html'); a missing file raises, which
\* serve_dashboard answers with the error text.
send_file(f) == IF f.exists THEN FileResponse(f.content) ELSE ErrorResponse

StaticSources ==
    {Unreadable}
      \cup {Csv(Frame(cols, WithIndex(cells))) :
               cols \in {AllColumns, AllColumns \ {"County"}},
               cells \in Tables(SessionRowPool, MaxRows)}

\* __main__: the page is generated and the server started only when that
\* succeeded.
StartStatic(gen) ==
    /\ variant = "static"
    /\ df = LoadFailed /\ sel = NoSel /\ tab = "tab-overview" /\ mfr = NA
    /\ out = Blank /\ rng = 1
    /\ ties \in TieOrders
    /\ reads = 1
    /\ file = written_file(gen, NoFile)
    /\ response = NoResponse
    /\ lastEvent = IF gen.ok THEN "load" ELSE "failed"

InitStatic == \E src \in StaticSources : source = src /\ StartStatic(generate_dashboard(src))

Served(f) ==
    /\ file' = f
    /\ response' = send_file(f)

\* serve_dashboard(): a request to '/'.
ServeDashboard ==
    /\ variant = "static"
    /\ lastEvent \in {"load", "served", "changed"}
    /\ Served(written_file(generate_dashboard(source), file))
    /\ reads' = read_again(reads)
    /\ lastEvent' = "served"
    /\ UNCHANGED <<variant, source, df, sel, tab, mfr, out, rng, ties>>

\* Between two requests the CSV file is replaced, or becomes unreadable.
SourceChanges ==
    /\ variant = "static"
    /\ lastEvent \in {"load", "served", "changed"}
    /\ \E src \in StaticSources \ {source} : source' = src
    /\ lastEvent' = "changed"
    /\ UNCHANGED <<variant, df, sel, tab, mfr, out, rng, ties, reads, file, response>>

NextStatic == ServeDashboard \/ SourceChanges

SpecStatic == InitStatic /\ [][NextStatic]_vars

\* C28: the answer to a request is the page generated from the file as it is
\* at that request, and an error when the generation failed.
C28_ServesOwnGeneration ==
    (variant = "static" /\ lastEvent = "served") =>
        IF generate_dashboard(source).ok
        THEN response = FileResponse(generate_dashboard(source).content)
        ELSE response.kind = "error"

-----------------------------------------------------------------------------
(* Top-n truncation: tables with one utility more than the utility chart
   shows *)

UtilityNames == <<"A", "B", "C", "D", "E", "F", "G", "H", "I", "J", "K">>

\* TopUtilities + 1 rows: the first nine of nine different utilities, the
\* last two of any utility.
TopNCells ==
    {[i \in 1..(TopUtilities + 1) |->
         [BaseRow EXCEPT
            !.utility = Text(<<UtilityNames[IF i <= TopUtilities - 1 THEN i ELSE f[i]]>>)]] :
        f \in [TopUtilities..(TopUtilities + 1) -> 1..Len(UtilityNames)]}

TopNSources == {Csv(Frame(AllColumns, WithIndex(cells))) : cells \in TopNCells}

InitTopN ==
    /\ rng = 1
    /\ \E v \in {"streamlit", "dash"}, src \in TopNSources : StartDefault(v, src)

SpecTopN == InitTopN /\ [][Render]_vars

\* top_n(view, n): the n entries of the view with the highest counts, in
\* descending order of count, entries of equal count in the view's order.
RECURSIVE StableInsert(_, _)
StableInsert(sorted, e) ==
    IF sorted = <<>> THEN <<e>>
    ELSE IF Head(sorted)[2] >= e[2] THEN <<Head(sorted)>> \o StableInsert(Tail(sorted), e)
    ELSE <<e>> \o sorted

RECURSIVE StableSort(_)
StableSort(view) ==
    IF view = <<>> THEN <<>>
    ELSE StableInsert(StableSort(SubSeq(view, 1, Len(view) - 1)), view[Len(view)])

top_n(view, n) == head(StableSort(view), n)

\* C24: the utility chart shows the ten utilities with the most vehicles, most
\* vehicles first, utilities with equally many in the order in which the
\* table first names them.
C24_TopNKeepsInputOrder ==
    (lastEvent = "callback" /\ out.utility.shown) =>
        out.utility.data =
            top_n(CountUtilities(<<>>, apply_filters(df.t.rows, sel)), TopUtilities)

====
